---- MODULE Spec2Model ----
(***************************************************************************)
(* Model of image-dupes: the difference hash, the Hamming distance, the    *)
(* percentage-to-threshold conversion and the two main programs            *)
(* (imgdupes.py and imgdupes2.py) that build the hash table and group      *)
(* images with similar hashes.                                             *)
(*                                                                         *)
(* Python strings are sequences of one-character strings, Python lists are *)
(* sequences, Python sets are sets, and a Python dict is the sequence of   *)
(* its items in enumeration order.                                         *)
(***************************************************************************)
EXTENDS Integers, Sequences, FiniteSets, TLC

VARIABLES pc, variant, listing, disk, image_hashes, percentage,
          allowable_hamming_distance, groups_of_similar_hashes,
          similar_groups, duplicate_images, similar_images,
          hash_size, image, image2, seq1, seq2, result

vars == <<pc, variant, listing, disk, image_hashes, percentage,
          allowable_hamming_distance, groups_of_similar_hashes,
          similar_groups, duplicate_images, similar_images,
          hash_size, image, image2, seq1, seq2, result>>

(***************************************************************************)
(* Bounds of the explored inputs.                                          *)
(***************************************************************************)
NumFiles == 4
MaxHashSize == 8
MaxExtra == 1
ExtraWindow == 3
MaxFlips == 2
MaxLen == 3

(***************************************************************************)
(* Program constants.                                                      *)
(***************************************************************************)
HASH_SIZE == 8
ALLOWABLE_HAMMING_DISTANCE == 4
DefaultHashSize == 8

\* Python's None, for a name that is not bound yet or a call that returned
\* nothing.
None == -1

ToSet(s) == {s[i] : i \in 1..Len(s)}

Min(a, b) == IF a < b THEN a ELSE b

(***************************************************************************)
(* difference_hash                                                         *)
(***************************************************************************)
HexDigits == <<"0", "1", "2", "3", "4", "5", "6", "7",
               "8", "9", "a", "b", "c", "d", "e", "f">>

\* hex(n)[2:] : the lowercase hexadecimal digits of n, no leading zeros.
RECURSIVE hex(_)
hex(n) ==
    IF n < 16 THEN <<HexDigits[n + 1]>>
    ELSE hex(n \div 16) \o <<HexDigits[(n % 16) + 1]>>

\* rjust that never pads.
rjust_none(s, width, fillchar) == s

\* str.rjust(width, fillchar)
RECURSIVE rjust(_, _, _)
rjust(s, width, fillchar) ==
    IF Len(s) >= width THEN s ELSE rjust(<<fillchar>> \o s, width, fillchar)

\* Most significant bit first.
BitWeight_msb(index) == 2 ^ (7 - (index % 8))

\* The weight a true comparison at position index adds to its byte.
BitWeight(index) == 2 ^ (index % 8)

\* "Compare adjacent pixels": one boolean per (row, col), row-major;
\* image maps <<col, row>> to the luminance of the resized picture.
Difference(img, hsize) ==
    [k \in 1..(hsize * hsize) |->
        LET row == (k - 1) \div hsize
            col == (k - 1) % hsize
            pixel_left == img[<<col, row>>]
            pixel_right == img[<<col + 1, row>>]
        IN pixel_left > pixel_right]

\* "Convert the binary array to a hexadecimal string": the enumerate loop,
\* from position index on, with the accumulators it carries.
RECURSIVE PackLoop(_, _, _, _)
PackLoop(difference, index, decimal_value, hex_string) ==
    IF index >= Len(difference) THEN hex_string
    ELSE LET dv == IF difference[index + 1]
                   THEN decimal_value + BitWeight(index)
                   ELSE decimal_value
         IN IF (index % 8) = 7
            THEN PackLoop(difference, index + 1, 0,
                          hex_string \o rjust(hex(dv), 2, "0"))
            ELSE PackLoop(difference, index + 1, dv, hex_string)

difference_hash(img, hsize) == PackLoop(Difference(img, hsize), 0, 0, <<>>)

(***************************************************************************)
(* hamming_distance                                                        *)
(***************************************************************************)
\* Counting the positions that agree instead of those that differ.
ZipCount_equal(s1, s2) ==
    Cardinality({i \in 1..(IF Len(s1) < Len(s2) THEN Len(s1) ELSE Len(s2)) : s1[i] = s2[i]})

\* zip(seq1, seq2) stops at the shorter sequence.
ZipCount(s1, s2) ==
    Cardinality({i \in 1..Min(Len(s1), Len(s2)) : s1[i] # s2[i]})

\* hamming_distance without the length check.
hamming_distance_nocheck(s1, s2) == [exc |-> "none", ret |-> ZipCount(s1, s2)]

hamming_distance(s1, s2) ==
    IF Len(s1) # Len(s2)
    THEN [exc |-> "ValueError", ret |-> None]
    ELSE [exc |-> "none", ret |-> ZipCount(s1, s2)]

(***************************************************************************)
(* percentage_to_hamming_value                                             *)
(***************************************************************************)
\* Truncation in place of rounding.
round_floor(num, den) == num \div den

\* Python 3 round() of the rational num/den (den > 0, num >= 0): nearest
\* integer, halves to the even neighbour.
round(num, den) ==
    LET q == num \div den
        r == num % den
    IN IF 2 * r < den THEN q
       ELSE IF 2 * r > den THEN q + 1
       ELSE IF q % 2 = 0 THEN q ELSE q + 1

\* HASH_SIZE*2 - (percentage / 100 * HASH_SIZE*2), kept exact as a
\* fraction over 100.  For whole percentages the value is never within
\* 0.02 of a half, so the float the program rounds and this fraction round
\* to the same integer.
percentage_to_hamming_value(p) ==
    round(HASH_SIZE * 2 * 100 - p * HASH_SIZE * 2, 100)

(***************************************************************************)
(* Inputs: resized grayscale pictures.                                     *)
(***************************************************************************)
\* The (hsize+1) x hsize picture whose comparison at position k (row-major,
\* from 0) is true exactly for k in ones.  A false comparison is an equal
\* pair of pixels (style "equal") or a darker left pixel (style "less").
GridOf(hsize, ones, style) ==
    [p \in (0..hsize) \X (0..(hsize - 1)) |->
        LET col == p[1]
            row == p[2]
            up == Cardinality({j \in col..(hsize - 1) : (row * hsize + j) \in ones})
            down == Cardinality({j \in col..(hsize - 1) : (row * hsize + j) \notin ones})
        IN IF style = "less" THEN hsize + up - down ELSE hsize + up]

Styles == {"equal", "less"}

HashSizes == (1..MaxHashSize) \cup {2 * DefaultHashSize}

SmallSubsets(S, n) == {T \in SUBSET S : Cardinality(T) <= n}

\* Positions beyond the first byte that the explored pictures may set.
ExtraPositions(hsize) ==
    {i \in 8..(hsize * hsize - 1) : i < 8 + ExtraWindow \/ i = hsize * hsize - 1}

\* The pictures explored for one hash size: every pattern of the first
\* eight comparisons, with up to MaxExtra true comparisons further on.
Pictures(hsize) ==
    {GridOf(hsize, low \cup extra, style) :
        low \in SUBSET (0..Min(7, hsize * hsize - 1)),
        extra \in SmallSubsets(ExtraPositions(hsize), MaxExtra),
        style \in Styles}

\* Pairs of default-size pictures: a base picture and the picture whose
\* comparisons differ from it exactly at the positions in flips.
PairBase == {0, 4, 9, DefaultHashSize * DefaultHashSize - 1}
FlipPositions == (0..(8 + ExtraWindow - 1)) \cup {DefaultHashSize * DefaultHashSize - 1}
SymDiff(A, B) == (A \ B) \cup (B \ A)

Alphabet == {"0", "1", "f"}
StringsUpTo(n) == UNION {[1..k -> Alphabet] : k \in 0..n}

(***************************************************************************)
(* Calls of the three functions on their own.                              *)
(***************************************************************************)
NoPipeline ==
    /\ variant = "none"
    /\ listing = <<>>
    /\ disk = <<>>
    /\ image_hashes = <<>>
    /\ allowable_hamming_distance = None
    /\ groups_of_similar_hashes = <<>>
    /\ similar_groups = <<>>
    /\ duplicate_images = <<>>
    /\ similar_images = <<>>

pipelineVars == <<variant, listing, disk, image_hashes,
                  allowable_hamming_distance, groups_of_similar_hashes,
                  similar_groups, duplicate_images, similar_images>>

InitPercentage ==
    /\ NoPipeline
    /\ pc = "percentage"
    /\ percentage \in 0..100
    /\ hash_size = None /\ image = <<>> /\ image2 = <<>>
    /\ seq1 = <<>> /\ seq2 = <<>>
    /\ result = None

CallPercentage ==
    /\ pc = "percentage"
    /\ result' = percentage_to_hamming_value(percentage)
    /\ pc' = "returned"
    /\ UNCHANGED <<pipelineVars, percentage, hash_size, image, image2, seq1, seq2>>

SpecPercentage == InitPercentage /\ [][CallPercentage]_vars

InitHamming ==
    /\ NoPipeline
    /\ pc = "distance"
    /\ percentage = None
    /\ hash_size = None /\ image = <<>> /\ image2 = <<>>
    /\ seq1 \in StringsUpTo(MaxLen)
    /\ seq2 \in StringsUpTo(MaxLen)
    /\ result = None

CallHamming ==
    /\ pc = "distance"
    /\ result' = hamming_distance(seq1, seq2)
    /\ pc' = "returned"
    /\ UNCHANGED <<pipelineVars, percentage, hash_size, image, image2, seq1, seq2>>

SpecHamming == InitHamming /\ [][CallHamming]_vars

InitPair ==
    /\ NoPipeline
    /\ pc = "hash"
    /\ percentage = None
    /\ hash_size = DefaultHashSize
    /\ \E ones \in SUBSET PairBase, flips \in SmallSubsets(FlipPositions, MaxFlips) :
          /\ image = GridOf(DefaultHashSize, ones, "equal")
          /\ image2 = GridOf(DefaultHashSize, SymDiff(ones, flips), "equal")
    /\ seq1 = <<>> /\ seq2 = <<>>
    /\ result = None

HashPair ==
    /\ pc = "hash"
    /\ seq1' = difference_hash(image, hash_size)
    /\ seq2' = difference_hash(image2, hash_size)
    /\ pc' = "distance"
    /\ UNCHANGED <<pipelineVars, percentage, hash_size, image, image2, result>>

SpecPair == InitPair /\ [][HashPair \/ CallHamming]_vars

InitHash ==
    /\ NoPipeline
    /\ pc = "hash"
    /\ percentage = None
    /\ hash_size \in HashSizes
    /\ image \in Pictures(hash_size)
    /\ image2 = <<>>
    /\ seq1 = <<>> /\ seq2 = <<>>
    /\ result = None

CallHash ==
    /\ pc = "hash"
    /\ result' = difference_hash(image, hash_size)
    /\ pc' = "returned"
    /\ UNCHANGED <<pipelineVars, percentage, hash_size, image, image2, seq1, seq2>>

SpecHash == InitHash /\ [][CallHash]_vars

(***************************************************************************)
(* The main programs: imgdupes.py (__main__) and imgdupes2.py (main).      *)
(***************************************************************************)
EXTENSIONS == {".jpg", ".jpeg", ".jpe", ".jfif", ".png", ".gif", ".bmp",
               ".pgm", ".pbm", ".ppm"}

\* File names in the order the directory scan yields them.
AllNames == <<[stem |-> "a", ext |-> ".jpg"], [stem |-> "notes", ext |-> ".txt"],
              [stem |-> "b", ext |-> ".png"], [stem |-> "c", ext |-> ".gif"],
              [stem |-> "d", ext |-> ".bmp"]>>

Listing == [i \in 1..NumFiles |-> AllNames[i]]

\* What a file holds: a picture (given by its true comparisons), a file
\* Image.open rejects, or a picture on which difference_hash raises.
Contents ==
    {[kind |-> "picture", ones |-> o] : o \in {{}, {0}, {0, 4}}}
        \cup {[kind |-> "unreadable", ones |-> {}],
              [kind |-> "undecodable", ones |-> {}]}

\* Configured thresholds: the program's own value and two stricter ones.
Thresholds == {0, 1, ALLOWABLE_HAMMING_DISTANCE}
Percentages == {100, 94, 0}

HasKey(d, key) == \E i \in 1..Len(d) : d[i].key = key

Lookup(d, key) == d[CHOOSE i \in 1..Len(d) : d[i].key = key].val

\* d[key] = [] on every insertion, then the append.
DictListAppend_reset(d, key, val) ==
    IF \E i \in 1..Len(d) : d[i].key = key
    THEN [i \in 1..Len(d) |->
            IF d[i].key = key THEN [key |-> key, val |-> <<val>>] ELSE d[i]]
    ELSE Append(d, [key |-> key, val |-> <<val>>])

\* if key not in d: d[key] = []
\* d[key].append(val)
DictListAppend(d, key, val) ==
    IF HasKey(d, key)
    THEN [i \in 1..Len(d) |->
            IF d[i].key = key
            THEN [key |-> key, val |-> Append(d[i].val, val)]
            ELSE d[i]]
    ELSE Append(d, [key |-> key, val |-> <<val>>])

\* if key not in d: d[key] = set()
\* d[key].add(val)
DictSetAdd(d, key, val) ==
    IF HasKey(d, key)
    THEN [i \in 1..Len(d) |->
            IF d[i].key = key
            THEN [key |-> key, val |-> d[i].val \cup {val}]
            ELSE d[i]]
    ELSE Append(d, [key |-> key, val |-> {val}])

\* Only neighbouring keys are paired.
combinations_adjacent(keys) ==
    [j \in 1..(IF Len(keys) < 2 THEN 0 ELSE Len(keys) - 1) |-> <<keys[j], keys[j + 1]>>]

\* itertools.combinations(d, 2) over the keys of d, in its order.
RECURSIVE combinations(_)
combinations(keys) ==
    IF Len(keys) < 2 THEN <<>>
    ELSE [j \in 1..(Len(keys) - 1) |-> <<keys[1], keys[j + 1]>>]
            \o combinations(Tail(keys))

Keys(d) == [i \in 1..Len(d) |-> d[i].key]

InitMain ==
    /\ pc = "build"
    /\ variant \in {"imgdupes", "imgdupes2"}
    /\ listing = Listing
    /\ disk \in [ToSet(Listing) -> Contents]
    /\ image_hashes = <<>>
    /\ IF variant = "imgdupes"
       THEN percentage = None /\ allowable_hamming_distance \in Thresholds
       ELSE percentage \in Percentages /\ allowable_hamming_distance = None
    /\ groups_of_similar_hashes = <<>>
    /\ similar_groups = <<>>
    /\ duplicate_images = <<>>
    /\ similar_images = <<>>
    /\ hash_size = DefaultHashSize
    /\ image = <<>> /\ image2 = <<>>
    /\ seq1 = <<>> /\ seq2 = <<>>
    /\ result = None

functionVars == <<hash_size, image, image2, seq1, seq2, result>>

\* One iteration of the loop over the walked files of imgdupes.py.
Walk1 ==
    /\ pc = "build"
    /\ variant = "imgdupes"
    /\ listing # <<>>
    /\ LET filename == Head(listing)
           content == disk[filename]
       IN /\ listing' = Tail(listing)
          /\ IF filename.ext \notin EXTENSIONS
             THEN UNCHANGED image_hashes
             ELSE IF content.kind = "unreadable"
             THEN UNCHANGED image_hashes
             ELSE IF content.kind = "undecodable"
             THEN UNCHANGED image_hashes
             ELSE LET dhash == difference_hash(
                                 GridOf(hash_size, content.ones, "equal"),
                                 hash_size)
                  IN image_hashes' = DictListAppend(image_hashes, dhash, filename)
    /\ UNCHANGED <<pc, variant, disk, percentage, allowable_hamming_distance,
                   groups_of_similar_hashes, similar_groups, duplicate_images,
                   similar_images, functionVars>>

\* One iteration of build_hash_table over yield_images (imgdupes2.py).
Walk2 ==
    /\ pc = "build"
    /\ variant = "imgdupes2"
    /\ listing # <<>>
    /\ LET filename == Head(listing)
           content == disk[filename]
       IN /\ listing' = Tail(listing)
          /\ IF content.kind = "unreadable"
             THEN UNCHANGED <<pc, image_hashes>>
             ELSE IF content.kind = "undecodable"
             THEN pc' = "crashed" /\ UNCHANGED image_hashes
             ELSE LET dhash == difference_hash(
                                 GridOf(hash_size, content.ones, "equal"),
                                 hash_size)
                  IN /\ image_hashes' = DictSetAdd(image_hashes, dhash, filename)
                     /\ UNCHANGED pc
    /\ UNCHANGED <<variant, disk, percentage, allowable_hamming_distance,
                   groups_of_similar_hashes, similar_groups, duplicate_images,
                   similar_images, functionVars>>

\* The loop over combinations(image_hashes, 2) of imgdupes.py, from the
\* given list of pairs on; acc.exc is set when hamming_distance raised.
RECURSIVE ClusterLoop1(_, _, _)
ClusterLoop1(pairs, allowed, acc) ==
    IF pairs = <<>> \/ acc.exc # "none" THEN acc
    ELSE LET hash_1 == Head(pairs)[1]
             hash_2 == Head(pairs)[2]
             d == hamming_distance(hash_1, hash_2)
         IN IF d.exc # "none"
            THEN [acc EXCEPT !.exc = d.exc]
            ELSE IF d.ret > allowed
            THEN ClusterLoop1(Tail(pairs), allowed, acc)
            ELSE ClusterLoop1(Tail(pairs), allowed,
                    [acc EXCEPT !.groups = DictListAppend(@, hash_1, hash_2)])

\* The same loop of imgdupes2.py.
RECURSIVE ClusterLoop2(_, _, _, _)
ClusterLoop2(pairs, table, allowed, acc) ==
    IF pairs = <<>> \/ acc.exc # "none" THEN acc
    ELSE LET hash1 == Head(pairs)[1]
             hash2 == Head(pairs)[2]
             d == hamming_distance(hash1, hash2)
         IN IF d.exc # "none"
            THEN [acc EXCEPT !.exc = d.exc]
            ELSE IF d.ret > allowed
            THEN ClusterLoop2(Tail(pairs), table, allowed, acc)
            ELSE ClusterLoop2(Tail(pairs), table, allowed,
                    [acc EXCEPT !.groups =
                        Append(@, Lookup(table, hash1) \cup Lookup(table, hash2))])

\* The loop of imgdupes2.py appending only the first key's files.
RECURSIVE ClusterLoop2_first(_, _, _, _)
ClusterLoop2_first(pairs, table, allowed, acc) ==
    IF pairs = <<>> \/ acc.exc # "none" THEN acc
    ELSE LET hash1 == Head(pairs)[1]
             hash2 == Head(pairs)[2]
             d == hamming_distance(hash1, hash2)
         IN IF d.exc # "none"
            THEN [acc EXCEPT !.exc = d.exc]
            ELSE IF d.ret > allowed
            THEN ClusterLoop2_first(Tail(pairs), table, allowed, acc)
            ELSE ClusterLoop2_first(Tail(pairs), table, allowed,
                    [acc EXCEPT !.groups = Append(@, Lookup(table, hash1))])

SimilarHashes1(table, allowed) ==
    ClusterLoop1(combinations(Keys(table)), allowed,
                 [exc |-> "none", groups |-> <<>>])

SimilarGroups2_first(table, allowed) ==
    ClusterLoop2_first(combinations(Keys(table)), table, allowed,
                       [exc |-> "none", groups |-> <<>>])

SimilarGroups2(table, allowed) ==
    ClusterLoop2(combinations(Keys(table)), table, allowed,
                 [exc |-> "none", groups |-> <<>>])

\* "Determine images with similar hashes" (imgdupes.py).
Cluster1 ==
    /\ pc = "build"
    /\ variant = "imgdupes"
    /\ listing = <<>>
    /\ LET out == SimilarHashes1(image_hashes, allowable_hamming_distance)
       IN /\ groups_of_similar_hashes' = out.groups
          /\ pc' = IF out.exc = "none" THEN "report" ELSE "crashed"
    /\ UNCHANGED <<variant, listing, disk, image_hashes, percentage,
                   allowable_hamming_distance, similar_groups,
                   duplicate_images, similar_images, functionVars>>

\* main() of imgdupes2.py from the return of build_hash_table to the end of
\* the loop over the pairs.
Cluster2 ==
    /\ pc = "build"
    /\ variant = "imgdupes2"
    /\ listing = <<>>
    /\ LET allowed == percentage_to_hamming_value(percentage)
           out == SimilarGroups2(image_hashes, allowed)
       IN /\ allowable_hamming_distance' = allowed
          /\ similar_groups' = out.groups
          /\ pc' = IF out.exc = "none" THEN "report" ELSE "crashed"
    /\ UNCHANGED <<variant, listing, disk, image_hashes, percentage,
                   groups_of_similar_hashes, duplicate_images, similar_images,
                   functionVars>>

\* for similar_hash in similar_hashes: file_paths.extend(image_hashes[similar_hash])
RECURSIVE ExtendAll(_, _, _)
ExtendAll(file_paths, similar_hashes, table) ==
    IF similar_hashes = <<>> THEN file_paths
    ELSE ExtendAll(file_paths \o Lookup(table, Head(similar_hashes)),
                   Tail(similar_hashes), table)

\* "Write the results to some files" (imgdupes.py): the loop over
\* groups_of_similar_hashes.items(), from the given items on.
RECURSIVE ReportLoop1(_, _, _)
ReportLoop1(items, table, out) ==
    IF items = <<>> THEN out
    ELSE LET main_hash == Head(items).key
             similar_hashes == Head(items).val
             file_paths == Lookup(table, main_hash)
             dups == IF Len(file_paths) > 1
                     THEN Append(out.duplicate_images, file_paths)
                     ELSE out.duplicate_images
             extended == ExtendAll(file_paths, similar_hashes, table)
         IN ReportLoop1(Tail(items), table,
                [duplicate_images |-> dups,
                 similar_images |-> Append(out.similar_images, extended)])

Report1 ==
    /\ pc = "report"
    /\ variant = "imgdupes"
    /\ LET out == ReportLoop1(groups_of_similar_hashes, image_hashes,
                      [duplicate_images |-> <<>>, similar_images |-> <<>>])
       IN /\ duplicate_images' = out.duplicate_images
          /\ similar_images' = out.similar_images
    /\ pc' = "done"
    /\ UNCHANGED <<variant, listing, disk, image_hashes, percentage,
                   allowable_hamming_distance, groups_of_similar_hashes,
                   similar_groups, functionVars>>

\* The loop printing every group (imgdupes2.py); nothing is reported as a
\* duplicate.
Report2 ==
    /\ pc = "report"
    /\ variant = "imgdupes2"
    /\ similar_images' = similar_groups
    /\ pc' = "done"
    /\ UNCHANGED <<variant, listing, disk, image_hashes, percentage,
                   allowable_hamming_distance, groups_of_similar_hashes,
                   similar_groups, duplicate_images, functionVars>>

Next == Walk1 \/ Walk2 \/ Cluster1 \/ Cluster2 \/ Report1 \/ Report2

Spec == InitMain /\ [][Next]_vars

(***************************************************************************)
(* Properties of the main programs (specification Spec).                   *)
(***************************************************************************)
PathSet(v) == IF variant = "imgdupes" THEN ToSet(v) ELSE v

\* Files recorded under the item at position i of a table.
FilesAt(table, i) == PathSet(table[i].val)

EmittedSimilar == {PathSet(similar_images[i]) : i \in 1..Len(similar_images)}

EmittedDuplicates == {ToSet(duplicate_images[i]) : i \in 1..Len(duplicate_images)}

Within(table, i, j) ==
    hamming_distance(table[i].key, table[j].key).ret <= allowable_hamming_distance

\* files(k1) \cup files(k2) over the unordered pairs of keys within threshold
PairUnions(table) ==
    {FilesAt(table, i) \cup FilesAt(table, j) :
        <<i, j>> \in {q \in (1..Len(table)) \X (1..Len(table)) :
                        q[1] < q[2] /\ Within(table, q[1], q[2])}}

\* Later keys within threshold of the key at position i.
Followers(table, i) == {j \in (i + 1)..Len(table) : Within(table, i, j)}

\* One union per key that starts a surviving pair: its files and the files
\* of every later key within threshold of it.
HubUnions(table) ==
    {FilesAt(table, i) \cup UNION {FilesAt(table, j) : j \in Followers(table, i)} :
        i \in {h \in 1..Len(table) : Followers(table, h) # {}}}

\* C1: every fingerprint key that holds more than one file is reported as a
\* duplicate group made of exactly that key's files, whatever its distance
\* to the other keys and whatever its place in the enumeration of pairs.
C1_EveryDuplicateReported ==
    pc = "done" =>
        \A i \in 1..Len(image_hashes) :
            Cardinality(FilesAt(image_hashes, i)) > 1
                => FilesAt(image_hashes, i) \in EmittedDuplicates

\* C2 as stated: the similar groups are exactly the unions of the files of
\* two distinct keys within threshold of one another.
C2_GroupsArePairUnions ==
    pc = "done" => EmittedSimilar = PairUnions(image_hashes)

\* C2 amended: imgdupes2 emits exactly one union per pair of keys within
\* threshold; imgdupes emits one group per key that starts such a pair,
\* joining its files with those of every later key within threshold of it;
\* in both nothing is emitted at threshold 0 and two keys at distance 1 share
\* a group when the threshold is at least 1.
C2_GroupsPerVariant ==
    pc = "done" =>
        /\ variant = "imgdupes2" =>
              /\ EmittedSimilar = PairUnions(image_hashes)
              /\ Len(similar_images) =
                    Cardinality({q \in (1..Len(image_hashes)) \X (1..Len(image_hashes)) :
                                    q[1] < q[2] /\ Within(image_hashes, q[1], q[2])})
        /\ variant = "imgdupes" =>
              /\ EmittedSimilar = HubUnions(image_hashes)
              /\ Len(similar_images) = Len(groups_of_similar_hashes)
        /\ allowable_hamming_distance = 0 => similar_images = <<>>
        /\ \A i, j \in 1..Len(image_hashes) :
              (/\ allowable_hamming_distance >= 1
               /\ hamming_distance(image_hashes[i].key, image_hashes[j].key).ret = 1)
                 => \E g \in EmittedSimilar :
                       FilesAt(image_hashes, i) \cup FilesAt(image_hashes, j) \subseteq g

\* A finished run of imgdupes in which one group joins two keys that are
\* farther apart than the threshold.
C2_Witness ==
    /\ pc = "done"
    /\ variant = "imgdupes"
    /\ \E i, j \in 1..Len(image_hashes), g \in EmittedSimilar :
          /\ i < j
          /\ ~Within(image_hashes, i, j)
          /\ FilesAt(image_hashes, i) \cup FilesAt(image_hashes, j) \subseteq g
    /\ \E i, j \in 1..Len(image_hashes) :
          hamming_distance(image_hashes[i].key, image_hashes[j].key).ret = 1

Scanned(f) == \A i \in 1..Len(listing) : listing[i] # f

\* The file has been scanned and difference_hash returned for it.
Hashed(f) ==
    /\ Scanned(f)
    /\ disk[f].kind = "picture"
    /\ variant = "imgdupes" => f.ext \in EXTENSIONS

\* How many times f is recorded in the item at position i.
Occurrences(f, i) ==
    IF variant = "imgdupes"
    THEN Cardinality({j \in 1..Len(image_hashes[i].val) : image_hashes[i].val[j] = f})
    ELSE IF f \in image_hashes[i].val THEN 1 ELSE 0

Holders(f) == {i \in 1..Len(image_hashes) : Occurrences(f, i) > 0}

\* C3: throughout the build loop and after it, a file that was hashed
\* successfully is recorded under exactly one key, exactly once, and a file
\* that was not is recorded under no key.
C3_OneKeyPerHashedFile ==
    \A f \in ToSet(Listing) :
        IF Hashed(f)
        THEN /\ Cardinality(Holders(f)) = 1
             /\ \A i \in Holders(f) : Occurrences(f, i) = 1
        ELSE Holders(f) = {}

\* The build loop of imgdupes ended with two files under one key, a second
\* key, and a file that was skipped.
C3_Witness ==
    /\ variant = "imgdupes"
    /\ listing = <<>>
    /\ Len(image_hashes) >= 2
    /\ \E i \in 1..Len(image_hashes) : Len(image_hashes[i].val) = 2
    /\ \E f \in ToSet(Listing) : ~Hashed(f)

\* Every order in which the items of a table can be enumerated.
Orders(table) ==
    {[i \in 1..Len(table) |-> table[p[i]]] : p \in Permutations(1..Len(table))}

\* The similar groups the clustering pass and the report emit for a table
\* enumerated in the given order, as a set of file sets.
GroupsFor(table) ==
    IF variant = "imgdupes"
    THEN LET hubs == SimilarHashes1(table, allowable_hamming_distance).groups
             out == ReportLoop1(hubs, table,
                       [duplicate_images |-> <<>>, similar_images |-> <<>>])
         IN {ToSet(out.similar_images[i]) : i \in 1..Len(out.similar_images)}
    ELSE LET out == SimilarGroups2(table, allowable_hamming_distance).groups
         IN {out[i] : i \in 1..Len(out)}

\* C4 as stated: the groups emitted do not depend on the order in which the
\* keys are enumerated from the table.
C4_OrderIndependent ==
    pc = "done" =>
        \A table \in Orders(image_hashes) : GroupsFor(table) = EmittedSimilar

\* C4 amended: the groups of imgdupes2 do not depend on the order of the
\* keys; those of imgdupes do, and only the set of files they cover is the
\* same for every order.
C4_OrderIndependentPairwise ==
    pc = "done" =>
        \A table \in Orders(image_hashes) :
            /\ variant = "imgdupes2" => GroupsFor(table) = EmittedSimilar
            /\ variant = "imgdupes" => UNION GroupsFor(table) = UNION EmittedSimilar

\* A finished run of imgdupes2 over three keys that emitted groups, one of
\* them for the first and the last key.
C4_Witness ==
    /\ pc = "done"
    /\ variant = "imgdupes2"
    /\ Len(image_hashes) = 3
    /\ Within(image_hashes, 1, 3)
    /\ FilesAt(image_hashes, 1) \cup FilesAt(image_hashes, 3) \in EmittedSimilar

(***************************************************************************)
(* Properties of percentage_to_hamming_value (SpecPercentage).             *)
(***************************************************************************)
Abs(x) == IF x < 0 THEN -x ELSE x

C6_UnequalLengthsRaise ==
    (pc = "returned" /\ Len(seq1) # Len(seq2)) =>
        result.exc = "ValueError" /\ result.ret = None

\* The call raised for two non-empty sequences, one a proper prefix of the
\* other.
C6_Witness ==
    /\ pc = "returned"
    /\ Len(seq1) > 0
    /\ Len(seq1) < Len(seq2)
    /\ SubSeq(seq2, 1, Len(seq1)) = seq1
    /\ result.exc = "ValueError"

\* Positions at which the comparisons of the two pictures differ.
DifferingBits ==
    {k \in 1..(hash_size * hash_size) :
        Difference(image, hash_size)[k] # Difference(image2, hash_size)[k]}

\* Aligned groups of four comparisons in which the two pictures differ.
DifferingNibbles == {(k - 1) \div 4 : k \in DifferingBits}

\* C7 as stated: the distance between the fingerprints of two pictures is
\* the number of comparison bits in which they differ.
C7_DistanceCountsBits ==
    pc = "returned" => result.ret = Cardinality(DifferingBits)

\* C7 amended: the distance is the number of hexadecimal digits in which the
\* fingerprints differ, that is the number of aligned groups of four
\* comparison bits holding a differing bit; it is at most the number k of
\* differing bits and at least k/4.
C7_DistanceCountsHexDigits ==
    pc = "returned" =>
        /\ result.exc = "none"
        /\ result.ret = Cardinality(DifferingNibbles)
        /\ result.ret <= Cardinality(DifferingBits)
        /\ Cardinality(DifferingBits) <= 4 * result.ret

\* Two pictures that differ in two comparisons of one group of four are at
\* distance 1.
C7_Witness ==
    /\ pc = "returned"
    /\ Cardinality(DifferingBits) = 2
    /\ result.ret = 1

(***************************************************************************)
(* Properties of difference_hash (SpecHash).                               *)
(***************************************************************************)
\* C8 as stated: for a hash size h that is a multiple of 8 the fingerprint
\* has h/4 hexadecimal characters.
C8_LengthQuarterOfSize ==
    (pc = "returned" /\ hash_size % 8 = 0) => Len(result) = hash_size \div 4

\* C8 amended: for a hash size h that is a multiple of 8 the fingerprint is
\* a function of the pixel grid and h alone and has h*h/4 hexadecimal
\* characters.
C8_LengthQuarterOfBits ==
    (pc = "returned" /\ hash_size % 8 = 0) =>
        /\ Len(result) = (hash_size * hash_size) \div 4
        /\ \A i \in 1..Len(result) : result[i] \in ToSet(HexDigits)

\* A fingerprint of 64 characters was returned for hash size 16, with a
\* byte that needs its leading zero.
C8_Witness ==
    /\ pc = "returned"
    /\ hash_size = 16
    /\ Len(result) = 64
    /\ result[1] = "0"

HexVal(ch) == (CHOOSE i \in 1..16 : HexDigits[i] = ch) - 1

\* The byte written for chunk c (from 0) of the fingerprint.
ByteAt(fp, c) == 16 * HexVal(fp[2 * c + 1]) + HexVal(fp[2 * c + 2])

\* C9: when the number of comparisons is a multiple of 8, the fingerprint is
\* two lowercase hexadecimal digits per chunk of 8 comparisons, in chunk
\* order, and bit i (least significant first) of a chunk's byte is set iff
\* the i-th comparison of the chunk (left pixel strictly greater than right,
\* row-major) is true.
C9_PackedLsbFirst ==
    (pc = "returned" /\ (hash_size * hash_size) % 8 = 0) =>
        /\ Len(result) = 2 * ((hash_size * hash_size) \div 8)
        /\ \A i \in 1..Len(result) : result[i] \in ToSet(HexDigits)
        /\ \A row \in 0..(hash_size - 1), col \in 0..(hash_size - 1) :
              LET index == row * hash_size + col
                  byte == ByteAt(result, index \div 8)
              IN ((byte \div (2 ^ (index % 8))) % 2 = 1)
                    <=> (image[<<col, row>>] > image[<<col + 1, row>>])

\* A fingerprint whose first byte is 0x0a (comparisons 1 and 3 true) and
\* whose second byte is not zero.
C9_Witness ==
    /\ pc = "returned"
    /\ hash_size = 8
    /\ SubSeq(result, 1, 2) = <<"0", "a">>
    /\ SubSeq(result, 3, 4) # <<"0", "0">>

\* C10: a fingerprint is returned only for a hash size that is a positive
\* multiple of 8 (any other size is rejected), and a returned fingerprint
\* encodes all hash_size * hash_size comparison bits.
C10_RejectsBadHashSize ==
    pc = "returned" =>
        /\ hash_size > 0 /\ hash_size % 8 = 0
        /\ Len(result) * 4 = hash_size * hash_size

====
